---- MODULE Spec2Model ----
(***************************************************************************)
(* A model of the gsopt optimisation service: request validation, backend *)
(* dispatch, history parsing, adapter construction and the three request  *)
(* handlers of src/gsopt.py, with the adapters of src/skopt_bayes.py,     *)
(* src/opt_nevergrad.py and src/opt_snobfit.py.                           *)
(*                                                                         *)
(* JSON values are records [t, n, s]: t is the kind, n the integer when   *)
(* the value is a (small) finite number, s the text when it is a string.  *)
(* A finite number whose magnitude exceeds 1e10 is the kind "big"; n then *)
(* holds its sign.  The backend identifier "SKOPT-GP" is the sequence of  *)
(* its hyphen-separated words <<"SKOPT", "GP">>.                          *)
(***************************************************************************)
EXTENDS Integers, Sequences, FiniteSets, TLC

VARIABLES
    pc,                        \* "idle", or "done" once a handler has returned
    req,                       \* the request being answered
    resp,                      \* the handler's return value
    calls,                     \* engine constructions, tell and ask calls of this request
    optimizer,                 \* the adapter object build_optimizer returned
    optimizer_builder_loaded,  \* gsopt._optimizer_builder_loaded
    plots_loaded,              \* gsopt._matplotlib_loaded and gsopt._skopt_plots_loaded
    rate_limit_storage,        \* gsopt._rate_limit_storage
    pin,                       \* input of the parse_training_data check
    pout,                      \* its three results
    api,                       \* calls made on an adapter object since it was built
    last_ask,                  \* what the adapter's last ask did and returned
    clock,                     \* time.time(), in seconds
    accepted,                  \* per caller, the times of the pings answered 200
    workers                    \* the check_rate_limit call each worker is in

vars == <<pc, req, resp, calls, optimizer, optimizer_builder_loaded,
          plots_loaded, rate_limit_storage, pin, pout, api, last_ask,
          clock, accepted, workers>>
limiterVars == <<clock, accepted, workers>>

(***************************************************************************)
(* Bounds of the model.                                                    *)
(***************************************************************************)
MaxParams == 2     \* largest num_params of a well-formed payload
MaxPoints == 2     \* largest num_init_points / batch_size requested
MaxHistory == 2    \* longest history sent
MaxCalls == 3      \* tell and ask calls made on one adapter object
TickStep == 30     \* seconds between two readings of the clock
MaxClock == 60     \* last reading of the clock
MaxPings == 12     \* /ping requests handled
MaxWorkers == 2    \* threads serving requests at the same time
MaxAuthPings == 2  \* /ping requests among the requests that differ in credentials

(***************************************************************************)
(* JSON / Python values.                                                   *)
(***************************************************************************)
Num(i) == [t |-> "num", n |-> i, s |-> ""]
Big(sign) == [t |-> "big", n |-> sign, s |-> ""]
Inf(sign) == [t |-> "inf", n |-> sign, s |-> ""]
NaN == [t |-> "nan", n |-> 0, s |-> ""]
None == [t |-> "null", n |-> 0, s |-> ""]
Str(x) == [t |-> "str", n |-> 0, s |-> x]
EmptyStr == Str("")

\* float(v): numbers convert to themselves, strings are parsed after
\* stripping white space, None is a TypeError.
float(v) ==
    CASE v.t \in {"num", "big", "inf", "nan"} -> [exc |-> "", val |-> v]
      [] v.t = "null" -> [exc |-> "TypeError", val |-> v]
      [] v.t = "str" ->
            CASE v.s = "0" -> [exc |-> "", val |-> Num(0)]
              [] v.s = "1" -> [exc |-> "", val |-> Num(1)]
              [] v.s = " 1 " -> [exc |-> "", val |-> Num(1)]
              [] v.s = "nan" -> [exc |-> "", val |-> NaN]
              [] v.s = "inf" -> [exc |-> "", val |-> Inf(1)]
              [] OTHER -> [exc |-> "ValueError", val |-> v]

\* np.isfinite on a float
isfinite(f) == f.t \in {"num", "big"}

\* abs(f) > 1e10 on a float (False for NaN)
TooLarge(f) == f.t \in {"big", "inf"}

\* the order of floats; every comparison with NaN is False
FloatKey(f) ==
    CASE f.t = "num" -> f.n
      [] f.t = "big" -> f.n * 1000
      [] f.t = "inf" -> f.n * 2000
      [] OTHER -> 0
FloatGE(a, b) == a.t # "nan" /\ b.t # "nan" /\ FloatKey(a) >= FloatKey(b)

\* str(v).strip() == ''
StripsToEmpty(v) == v.t = "str" /\ v.s \in {"", " "}

\* str.upper() on the words of the model
Upper(w) ==
    CASE w = "skopt" -> "SKOPT"
      [] w = "gp" -> "GP"
      [] w = "x" -> "X"
      [] w = "OnePlusOne" -> "ONEPLUSONE"
      [] OTHER -> w
UpperAll(ws) == [i \in 1..Len(ws) |-> Upper(ws[i])]

\* re.compile(r'^[a-zA-Z0-9_\-\s]{1,50}$').match(name) on the names of the model
NamePatternMatches(name) == name \in {"x", "y", "z", "w", "objective", " "}

(***************************************************************************)
(* OptimizerSettings.                                                      *)
(***************************************************************************)
SettingsFields == {"base_estimator", "acquisition_function", "num_params",
                   "param_names", "param_mins", "param_maxes",
                   "num_init_points", "batch_size"}

\* OptimizerSettings.from_dict: absent keys take their defaults
from_dict(data) ==
    [base_estimator |-> IF "base_estimator" \in data.fields
                        THEN data.base_estimator ELSE <<"GP">>,
     acquisition_function |-> IF "acquisition_function" \in data.fields
                              THEN data.acquisition_function ELSE "EI",
     num_params |-> IF "num_params" \in data.fields THEN data.num_params ELSE 0,
     param_names |-> IF "param_names" \in data.fields THEN data.param_names ELSE <<>>,
     param_mins |-> IF "param_mins" \in data.fields THEN data.param_mins ELSE <<>>,
     param_maxes |-> IF "param_maxes" \in data.fields THEN data.param_maxes ELSE <<>>,
     num_init_points |-> IF "num_init_points" \in data.fields
                         THEN data.num_init_points ELSE 10,
     batch_size |-> IF "batch_size" \in data.fields THEN data.batch_size ELSE 5]

\* the body of the loop over the bounds, for one dimension
CheckBoundsAcceptsEqual(min, max) ==
    LET lo == float(min)
        hi == float(max)
    IN  IF lo.exc # "" \/ hi.exc # "" THEN "Invalid numeric bounds"
        ELSE IF TooLarge(lo.val) \/ TooLarge(hi.val) THEN "Parameter bounds too large"
        ELSE IF FloatGE(lo.val, hi.val) /\ lo.val # hi.val THEN "min must be < max"
        ELSE ""
CheckBounds(min, max) ==
    LET lo == float(min)
        hi == float(max)
    IN  IF lo.exc # "" \/ hi.exc # "" THEN "Invalid numeric bounds"
        ELSE IF TooLarge(lo.val) \/ TooLarge(hi.val) THEN "Parameter bounds too large"
        ELSE IF FloatGE(lo.val, hi.val) THEN "min must be < max"
        ELSE ""

\* the loop over the bounds: the first dimension that fails decides
RECURSIVE ValidateBounds(_, _)
ValidateBounds(s, i) ==
    IF i > s.num_params THEN ""
    ELSE IF CheckBounds(s.param_mins[i], s.param_maxes[i]) # ""
    THEN CheckBounds(s.param_mins[i], s.param_maxes[i])
    ELSE ValidateBounds(s, i + 1)

\* OptimizerSettings.get_dimensions: a dict keyed by parameter name (a
\* repeated name keeps the bounds of its last occurrence)
get_dimensions(s) ==
    LET keys == {s.param_names[i] : i \in 1..Len(s.param_names)}
        last(k) == CHOOSE i \in 1..Len(s.param_names) :
                      /\ s.param_names[i] = k
                      /\ \A h \in 1..Len(s.param_names) : s.param_names[h] = k => h <= i
    IN  [k \in keys |-> <<s.param_mins[last(k)], s.param_maxes[last(k)]>>]

valid_estimators == {"GP", "RF", "ET", "GBRT"}
valid_acq_funcs == {"EI", "PI", "LCB", "gp_hedge"}

\* validate_optimizer_settings: "" when the payload is accepted, otherwise
\* the message of the first check that fails
validate_optimizer_settings(data) ==
    LET s == from_dict(data)
        estimator == IF Len(s.base_estimator) > 1
                     THEN s.base_estimator[2] ELSE s.base_estimator[1]
    IN  IF \E f \in {"num_params", "param_names", "param_mins", "param_maxes"} :
               f \notin data.fields
        THEN "Missing required field"
        ELSE IF s.num_params < 1 \/ s.num_params > 100
        THEN "num_params must be between 1 and 100"
        ELSE IF Len(s.param_names) # s.num_params
        THEN "param_names length must match num_params"
        ELSE IF \E i \in 1..Len(s.param_names) : ~NamePatternMatches(s.param_names[i])
        THEN "Invalid parameter name"
        ELSE IF Len(s.param_mins) # s.num_params \/ Len(s.param_maxes) # s.num_params
        THEN "Parameter bounds must match num_params"
        ELSE IF ValidateBounds(s, 1) # "" THEN ValidateBounds(s, 1)
        ELSE IF s.num_init_points < 1 \/ s.num_init_points > 1000
        THEN "num_init_points must be between 1 and 1000"
        ELSE IF s.batch_size < 1 \/ s.batch_size > 100
        THEN "batch_size must be between 1 and 100"
        ELSE IF estimator \notin valid_estimators THEN "Invalid base_estimator"
        ELSE IF s.acquisition_function \notin valid_acq_funcs
        THEN "Invalid acquisition_function"
        ELSE ""

(***************************************************************************)
(* History rows are functions from keys to JSON values.                    *)
(***************************************************************************)
HasKey(row, k) == k \in DOMAIN row
Get(row, k, default) == IF HasKey(row, k) THEN row[k] ELSE default

\* [float(row[name]) for name in param_names], then float(row['objective']):
\* "" when every conversion succeeds, otherwise the exception raised first
StrictConversion(row, names) ==
    LET bad == {i \in 1..Len(names) :
                    ~HasKey(row, names[i]) \/ float(row[names[i]]).exc # ""}
        first == CHOOSE i \in bad : \A j \in bad : i <= j
    IN  IF bad # {}
        THEN IF ~HasKey(row, names[first]) THEN "KeyError"
             ELSE float(row[names[first]]).exc
        ELSE float(row["objective"]).exc

\* [float(row.get(name, 0)) for name in param_names], then float(row['objective'])
LenientConversion(row, names) ==
    LET bad == {i \in 1..Len(names) : float(Get(row, names[i], Num(0))).exc # ""}
        first == CHOOSE i \in bad : \A j \in bad : i <= j
    IN  IF bad # {} THEN float(Get(row, names[first], Num(0))).exc
        ELSE float(row["objective"]).exc

\* skopt_bayes.parse_training_data
skopt_parse_training_data(existing_data, param_names) ==
    LET step[i \in 0..Len(existing_data)] ==
            IF i = 0 THEN [X |-> <<>>, y |-> <<>>]
            ELSE LET row == existing_data[i]
                     acc == step[i - 1]
                 IN  IF \/ ~HasKey(row, "objective")
                        \/ row["objective"] = None
                        \/ StripsToEmpty(row["objective"])
                     THEN acc
                     ELSE IF StrictConversion(row, param_names)
                                 \in {"ValueError", "TypeError", "KeyError"}
                     THEN acc
                     ELSE [X |-> Append(acc.X,
                                   [d \in 1..Len(param_names) |->
                                        float(row[param_names[d]]).val]),
                           y |-> Append(acc.y, float(row["objective"]).val)]
    IN  step[Len(existing_data)]

\* opt_nevergrad.parse_training_data
nevergrad_parse_training_data(existing_data, param_names) ==
    LET step[i \in 0..Len(existing_data)] ==
            IF i = 0 THEN [X |-> <<>>, y |-> <<>>]
            ELSE LET row == existing_data[i]
                     acc == step[i - 1]
                 IN  IF \/ ~HasKey(row, "objective")
                        \/ row["objective"] = None
                        \/ row["objective"] = EmptyStr
                     THEN acc
                     ELSE IF LenientConversion(row, param_names)
                                 \in {"ValueError", "TypeError"}
                     THEN acc
                     ELSE [X |-> Append(acc.X,
                                   [d \in 1..Len(param_names) |->
                                        float(Get(row, param_names[d], Num(0))).val]),
                           y |-> Append(acc.y, float(row["objective"]).val)]
    IN  step[Len(existing_data)]

\* opt_snobfit.parse_training_data
snobfit_parse_training_data(existing_data, param_names) ==
    LET step[i \in 0..Len(existing_data)] ==
            IF i = 0 THEN [X |-> <<>>, y |-> <<>>]
            ELSE LET row == existing_data[i]
                     acc == step[i - 1]
                 IN  IF \/ ~HasKey(row, "objective")
                        \/ row["objective"] = None
                        \/ row["objective"] = EmptyStr
                     THEN acc
                     ELSE IF LenientConversion(row, param_names)
                                 \in {"ValueError", "TypeError"}
                     THEN acc
                     ELSE [X |-> Append(acc.X,
                                   [d \in 1..Len(param_names) |->
                                        float(Get(row, param_names[d], Num(0))).val]),
                           y |-> Append(acc.y, float(row["objective"]).val)]
    IN  step[Len(existing_data)]

\* len(data): a row with the key "repeated" stands for that many equal
\* records (a history of more than 10000 records is not written out)
RECURSIVE HistoryLen(_)
HistoryLen(data) ==
    IF data = <<>> THEN 0
    ELSE (IF HasKey(Head(data), "repeated") THEN Head(data)["repeated"].n ELSE 1)
         + HistoryLen(Tail(data))

\* validate_existing_data: "" when the history is accepted
validate_existing_data(data, settings) ==
    LET RowError(point) ==
            LET names == settings.param_names
                bad == {d \in 1..Len(names) :
                           \/ ~HasKey(point, names[d])
                           \/ float(point[names[d]]).exc # ""
                           \/ ~isfinite(float(point[names[d]]).val)}
                first == CHOOSE d \in bad : \A e \in bad : d <= e
            IN  IF bad # {}
                THEN IF ~HasKey(point, names[first]) THEN "missing parameter"
                     ELSE IF float(point[names[first]]).exc # ""
                     THEN "non-numeric value"
                     ELSE "invalid value"
                ELSE IF HasKey(point, "objective")
                        /\ point["objective"] \notin {EmptyStr, None}
                THEN IF float(point["objective"]).exc # "" THEN "non-numeric objective"
                     ELSE IF ~isfinite(float(point["objective"]).val)
                     THEN "invalid objective value"
                     ELSE ""
                ELSE ""
        failing == {i \in 1..Len(data) : RowError(data[i]) # ""}
        firstRow == CHOOSE i \in failing : \A j \in failing : i <= j
    IN  IF HistoryLen(data) > 10000 THEN "Too many data points"
        ELSE IF failing # {} THEN RowError(data[firstRow])
        ELSE ""

\* format_points_response: zip(param_names, point) into a dict (a repeated
\* name keeps its last value), then the 'objective' placeholder
format_points_response(points, param_names) ==
    [j \in 1..Len(points) |->
        LET m == IF Len(param_names) < Len(points[j])
                 THEN Len(param_names) ELSE Len(points[j])
            keys == {param_names[i] : i \in 1..m}
            last(k) == CHOOSE i \in 1..m :
                          /\ param_names[i] = k
                          /\ \A h \in 1..m : param_names[h] = k => h <= i
        IN  [k \in keys \cup {"objective"} |->
                IF k = "objective" THEN EmptyStr
                ELSE float(points[j][last(k)]).val]]

(***************************************************************************)
(* The surrogate-model adapter.  `calls` records what reaches the engine:  *)
(* dispatch (the number of gsopt.build_optimizer calls), constructed (the   *)
(* arguments of each engine constructor call), tells (the data of each     *)
(* engine tell), asks (the n of each engine ask) and returned (the list of  *)
(* points each engine ask handed back).                                    *)
(* The engine itself is outside the repository: `ans` is what it does in   *)
(* this request: where it raises, if anywhere, and the points its ask      *)
(* returns.                                                                *)
(***************************************************************************)
NoCalls ==
    [dispatch |-> 0, constructed |-> <<>>, tells |-> <<>>, asks |-> <<>>,
     returned |-> <<>>]
NoOptimizer == [kind |-> "none"]

\* skopt.space.Real(low, high) refuses an empty or unordered interval
RealRefuses(lo, hi) ==
    \/ float(lo).exc # "" \/ float(hi).exc # ""
    \/ ~isfinite(float(lo).val) \/ ~isfinite(float(hi).val)
    \/ FloatGE(float(lo).val, float(hi).val)

SkoptBayesianOptimizerKeepsData(param_names, param_mins, param_maxes, base_estimator, acquisition_function) ==
    [kind |-> "skopt",
     param_names |-> param_names,
     param_mins |-> param_mins,
     param_maxes |-> param_maxes,
     base_estimator |-> base_estimator,
     acquisition_function |-> acquisition_function,
     Xi |-> <<[d \in 1..Len(param_names) |-> Num(0)]>>,
     yi |-> <<Num(0)>>]

\* SkoptBayesianOptimizer.__init__
SkoptBayesianOptimizer(param_names, param_mins, param_maxes, base_estimator, acquisition_function) ==
    [kind |-> "skopt",
     param_names |-> param_names,
     param_mins |-> param_mins,
     param_maxes |-> param_maxes,
     base_estimator |-> base_estimator,
     acquisition_function |-> acquisition_function,
     Xi |-> <<>>,
     yi |-> <<>>]

\* SkoptBayesianOptimizer.tell: nothing reaches the engine without data
SkoptTell(opt, x_data, y_data) ==
    IF x_data = <<>> \/ y_data = <<>> THEN opt
    ELSE [opt EXCEPT !.Xi = opt.Xi \o x_data, !.yi = opt.yi \o y_data]

\* the points skopt.Optimizer.ask hands back: ans.k of them, each inside
\* the Real dimensions the engine was constructed with
EnginePoints(opt, ans) ==
    [j \in 1..ans.k |->
        [d \in 1..Len(opt.param_names) |->
            IF (ans.corner = "lo") = (j % 2 = 1)
            THEN float(opt.param_mins[d]).val
            ELSE float(opt.param_maxes[d]).val]]

\* SkoptBayesianOptimizer.ask: the engine's answer, as it is
SkoptAsk(opt, n_points, ans) == EnginePoints(opt, ans)

\* skopt_bayes.build_optimizer
build_skopt_optimizer(param_names, param_mins, param_maxes, base_estimator, acquisition_function, existing_data, ans) ==
    LET made == SkoptBayesianOptimizer(param_names, param_mins, param_maxes,
                                       base_estimator, acquisition_function)
        ctor == [family |-> "SKOPT", algo |-> base_estimator]
        train == skopt_parse_training_data(existing_data, param_names)
        refused == \/ Len(param_mins) < Len(param_names)
                   \/ Len(param_maxes) < Len(param_names)
                   \/ \E d \in 1..Len(param_names) :
                          RealRefuses(param_mins[d], param_maxes[d])
    IN  IF refused \/ ans.fail = "construct"
        THEN [exc |-> "EngineError", optimizer |-> NoOptimizer,
              calls |-> [NoCalls EXCEPT !.constructed = <<ctor>>]]
        ELSE IF existing_data # <<>> /\ train.X # <<>>
        THEN IF ans.fail = "tell"
             THEN [exc |-> "EngineError", optimizer |-> NoOptimizer,
                   calls |-> [NoCalls EXCEPT !.constructed = <<ctor>>,
                                             !.tells = <<train>>]]
             ELSE [exc |-> "", optimizer |-> SkoptTell(made, train.X, train.y),
                   calls |-> [NoCalls EXCEPT !.constructed = <<ctor>>,
                                             !.tells = <<train>>]]
        ELSE [exc |-> "", optimizer |-> made,
              calls |-> [NoCalls EXCEPT !.constructed = <<ctor>>]]

build_optimizer_with_default(settings, existing_data, ans) ==
    LET optimizer_type == settings.base_estimator
        algo == IF Len(optimizer_type) > 1 THEN Tail(optimizer_type)
                ELSE optimizer_type
        made == build_skopt_optimizer(settings.param_names, settings.param_mins,
                                      settings.param_maxes, UpperAll(algo),
                                      settings.acquisition_function,
                                      existing_data, ans)
    IN  [made EXCEPT !.calls.dispatch = 1]

\* gsopt.build_optimizer: the dispatcher
build_optimizer(settings, existing_data, ans) ==
    LET optimizer_type == settings.base_estimator
        prefix == Upper(optimizer_type[1])
        algo == Tail(optimizer_type)
        made == build_skopt_optimizer(settings.param_names, settings.param_mins,
                                      settings.param_maxes, UpperAll(algo),
                                      settings.acquisition_function,
                                      existing_data, ans)
    IN  IF Len(optimizer_type) > 1 /\ prefix = "SKOPT"
        THEN [made EXCEPT !.calls.dispatch = 1]
        ELSE [exc |-> "ValueError: Unknown or unsupported optimizer type",
              optimizer |-> NoOptimizer,
              calls |-> [NoCalls EXCEPT !.dispatch = 1]]

(***************************************************************************)
(* Authentication (utils.authenticate_request).                            *)
(***************************************************************************)
validate_gmail(email) ==
    IF email \notin {"a@gmail.com", "b@gmail.com"}
    THEN [ok |-> FALSE, email |-> "", msg |-> "Access denied: Must use a Gmail account"]
    ELSE [ok |-> TRUE, email |-> email, msg |-> ""]

\* jwt.decode(token, options={"verify_signature": False}) on the tokens of
\* the model: the claims, or PyJWTError
jwt_decode(token) ==
    CASE token = "jwt:a@gmail.com" -> [exc |-> "", email |-> "a@gmail.com", sub |-> "1"]
      [] token = "jwt:c@corp.com" -> [exc |-> "", email |-> "c@corp.com", sub |-> ""]
      [] token = "jwt:sub:b@gmail.com" -> [exc |-> "", email |-> "", sub |-> "b@gmail.com"]
      [] token = "jwt:none" -> [exc |-> "", email |-> "", sub |-> ""]
      [] OTHER -> [exc |-> "PyJWTError", email |-> "", sub |-> ""]

\* _validate_jwt_token: the 'email' claim, or else the 'sub' claim
validate_jwt_token(token) ==
    LET unverified_claims == jwt_decode(token)
        email == IF unverified_claims.email # "" THEN unverified_claims.email
                 ELSE unverified_claims.sub
    IN  IF unverified_claims.exc = "" /\ email # ""
        THEN validate_gmail(email)
        ELSE [ok |-> FALSE, email |-> "", msg |-> "Invalid or malformed JWT token"]

authenticate_request_token_first(headers) ==
    IF headers.bearer # ""
    THEN validate_jwt_token(headers.bearer)
    ELSE IF headers.x_user_email # ""
    THEN validate_gmail(headers.x_user_email)
    ELSE IF headers.x_goog_email # ""
    THEN validate_gmail(IF headers.x_goog_email = "accounts.google.com:b@gmail.com"
                        THEN "b@gmail.com" ELSE headers.x_goog_email)
    ELSE [ok |-> FALSE, email |-> "", msg |-> "Authentication required"]

\* authenticate_request; headers.bearer is the token of an Authorization
\* header that starts with 'Bearer ', "" without such a header
authenticate_request(headers) ==
    IF headers.x_user_email # ""
    THEN validate_gmail(headers.x_user_email)
    ELSE IF headers.x_goog_email # ""
    THEN validate_gmail(IF headers.x_goog_email = "accounts.google.com:b@gmail.com"
                        THEN "b@gmail.com" ELSE headers.x_goog_email)
    ELSE IF headers.bearer # ""
    THEN validate_jwt_token(headers.bearer)
    ELSE [ok |-> FALSE, email |-> "", msg |-> "Authentication required"]

(***************************************************************************)
(* The handlers.  Each returns the response with what the request did.     *)
(***************************************************************************)
Response(status, message, data) ==
    [status |-> status, message |-> message, data |-> data]
Outcome(response, did, opt) ==
    [resp |-> response, calls |-> did, optimizer |-> opt]

\* init_optimization
init_optimization(r, ans) ==
    LET auth == authenticate_request(r.headers)
        invalid == validate_optimizer_settings(r.settings)
        settings == from_dict(r.settings)
        built == build_optimizer(settings, <<>>, ans)
        initial_points == SkoptAsk(built.optimizer, settings.num_init_points, ans)
        asked == [built.calls EXCEPT !.asks = <<settings.num_init_points>>]
    IN  IF ~auth.ok
        THEN Outcome(Response(403, auth.msg, <<>>), NoCalls, NoOptimizer)
        ELSE IF ~r.has_json
        THEN Outcome(Response(400, "Request must be JSON", <<>>),
                     NoCalls, NoOptimizer)
        ELSE IF ~r.has_settings
        THEN Outcome(Response(400, "settings are required", <<>>),
                     NoCalls, NoOptimizer)
        ELSE IF invalid # ""
        THEN Outcome(Response(400, invalid, <<>>), NoCalls, NoOptimizer)
        ELSE IF built.exc # ""
        THEN Outcome(Response(500, "Internal server error", <<>>),
                     built.calls, NoOptimizer)
        ELSE IF ans.fail = "ask"
        THEN Outcome(Response(500, "Internal server error", <<>>),
                     asked, built.optimizer)
        ELSE Outcome(Response(200, "Generated initial points",
                              format_points_response(initial_points,
                                                     settings.param_names)),
                     [asked EXCEPT !.returned = <<initial_points>>],
                     built.optimizer)

\* continue_optimization
continue_optimization(r, ans) ==
    LET auth == authenticate_request(r.headers)
        invalid == validate_optimizer_settings(r.settings)
        settings == from_dict(r.settings)
        data_error == validate_existing_data(r.existing_data, settings)
        built == build_optimizer(settings, r.existing_data, ans)
        new_points == SkoptAsk(built.optimizer, settings.batch_size, ans)
        asked == [built.calls EXCEPT !.asks = <<settings.batch_size>>]
    IN  IF ~auth.ok
        THEN Outcome(Response(403, auth.msg, <<>>), NoCalls, NoOptimizer)
        ELSE IF ~r.has_json
        THEN Outcome(Response(400, "Request must be JSON", <<>>),
                     NoCalls, NoOptimizer)
        ELSE IF ~r.has_settings
        THEN Outcome(Response(400, "settings are required", <<>>),
                     NoCalls, NoOptimizer)
        ELSE IF invalid # ""
        THEN Outcome(Response(400, invalid, <<>>), NoCalls, NoOptimizer)
        ELSE IF data_error # ""
        THEN Outcome(Response(400, data_error, <<>>), NoCalls, NoOptimizer)
        ELSE IF built.exc # ""
        THEN Outcome(Response(500, "Internal server error", <<>>),
                     built.calls, NoOptimizer)
        ELSE IF ans.fail = "ask"
        THEN Outcome(Response(500, "Internal server error", <<>>),
                     asked, built.optimizer)
        ELSE Outcome(Response(200, "Generated new points",
                              format_points_response(new_points,
                                                     settings.param_names)),
                     [asked EXCEPT !.returned = <<new_points>>],
                     built.optimizer)

\* generate_plot: no validation of settings or history; the exception text
\* is returned to the caller
generate_plot(r, ans) ==
    LET auth == authenticate_request(r.headers)
        settings == from_dict(IF r.has_settings THEN r.settings
                              ELSE [fields |-> {}])
        built == build_optimizer(settings, r.existing_data, ans)
    IN  IF ~auth.ok
        THEN Outcome(Response(403, auth.msg, <<>>), NoCalls, NoOptimizer)
        ELSE IF ~r.has_json
        THEN Outcome(Response(500, "AttributeError", <<>>),
                     NoCalls, NoOptimizer)
        ELSE IF built.exc # ""
        THEN Outcome(Response(500, built.exc, <<>>), built.calls, NoOptimizer)
        ELSE IF built.optimizer.Xi = <<>>
        THEN Outcome(Response(400, "No data available to plot", <<>>),
                     built.calls, built.optimizer)
        ELSE IF ans.fail = "plot"
        THEN Outcome(Response(500, "Error creating plot", <<>>),
                     built.calls, built.optimizer)
        ELSE Outcome(Response(200, "plot_data", <<>>),
                     built.calls, built.optimizer)

\* test_connection
test_connection(r) ==
    LET auth == authenticate_request(r.headers)
    IN  IF ~auth.ok
        THEN Outcome(Response(403, auth.msg, <<>>), NoCalls, NoOptimizer)
        ELSE Outcome(Response(200, "Connection verified", <<auth.email>>),
                     NoCalls, NoOptimizer)

(***************************************************************************)
(* The requests the model sends.                                           *)
(***************************************************************************)
AllNames == <<"x", "y", "z", "w">>
Identifiers ==
    {<<"GP">>, <<"XX">>, <<"RANDOM">>, <<"SNOBFIT">>,
     <<"SKOPT", "GP">>, <<"skopt", "GP">>, <<"SKOPT", "gp">>,
     <<"NEVERGRAD", "OnePlusOne">>, <<"FOO", "GP">>, <<"SKOPT", "GP", "x">>}

Payload(names, mins, maxes, ident, acq, ninit, batch) ==
    [fields |-> SettingsFields,
     base_estimator |-> ident,
     acquisition_function |-> acq,
     num_params |-> Len(names),
     param_names |-> names,
     param_mins |-> mins,
     param_maxes |-> maxes,
     num_init_points |-> ninit,
     batch_size |-> batch]

DistinctNames(n) == [i \in 1..n |-> AllNames[i]]
SameNames(n) == [i \in 1..n |-> "x"]
ReservedNames(n) == [i \in 1..n |-> IF i = 1 THEN "objective" ELSE AllNames[i]]

\* every dimension [0, 1], or one dimension replaced by another interval
BoundChoices(n) ==
    {[lo |-> [i \in 1..n |-> Num(0)], hi |-> [i \in 1..n |-> Num(1)]]}
    \cup {[lo |-> [i \in 1..n |-> IF i = d THEN Num(p[1]) ELSE Num(0)],
           hi |-> [i \in 1..n |-> IF i = d THEN Num(p[2]) ELSE Num(1)]] :
             d \in 1..n, p \in {<<1, 2>>, <<1, 1>>, <<2, 1>>}}

UnitPayload(n, ident, ninit, batch) ==
    Payload(DistinctNames(n), [i \in 1..n |-> Num(0)], [i \in 1..n |-> Num(1)],
            ident, "EI", ninit, batch)

\* well-formed payloads: every search space with the SKOPT-GP backend, and
\* every identifier with the unit search space; an endpoint reads only one
\* of num_init_points and batch_size, and that one varies
Counts(endpoint) ==
    {[ninit |-> IF endpoint = "init" THEN c ELSE 1,
      batch |-> IF endpoint = "continue" THEN c ELSE 1] :
        c \in IF endpoint = "plot" THEN {1} ELSE 1..MaxPoints}
SpacePayloads(endpoint) ==
    UNION {{Payload(names, b.lo, b.hi, <<"SKOPT", "GP">>, "EI", c.ninit, c.batch) :
                names \in {DistinctNames(n), SameNames(n), ReservedNames(n)},
                b \in BoundChoices(n),
                c \in Counts(endpoint)} :
           n \in 1..MaxParams}
BackendPayloads(endpoint) ==
    {UnitPayload(n, ident, c.ninit, c.batch) :
        n \in 1..MaxParams, ident \in Identifiers, c \in Counts(endpoint)}

\* payloads that break one rule of validate_optimizer_settings each
MalformedPayloads ==
    LET base == UnitPayload(1, <<"SKOPT", "GP">>, 1, 1)
    IN  {[base EXCEPT !.fields = SettingsFields \ {"param_maxes"}],
         [base EXCEPT !.fields = {"num_params", "param_names", "param_mins",
                                  "param_maxes"}],
         [base EXCEPT !.num_params = 0, !.param_names = <<>>,
                      !.param_mins = <<>>, !.param_maxes = <<>>],
         [base EXCEPT !.num_params = 101],
         [base EXCEPT !.param_names = <<"x", "y">>],
         [base EXCEPT !.param_names = <<"">>],
         [base EXCEPT !.param_names = <<"a;b">>],
         [base EXCEPT !.param_maxes = <<Num(1), Num(1)>>],
         [base EXCEPT !.param_mins = <<Str("abc")>>],
         [base EXCEPT !.param_mins = <<None>>],
         [base EXCEPT !.param_mins = <<NaN>>],
         [base EXCEPT !.param_maxes = <<NaN>>],
         [base EXCEPT !.param_maxes = <<Big(1)>>],
         [base EXCEPT !.param_mins = <<Inf(-1)>>],
         [base EXCEPT !.num_init_points = 0],
         [base EXCEPT !.num_init_points = 1001],
         [base EXCEPT !.batch_size = 0],
         [base EXCEPT !.batch_size = 101],
         [base EXCEPT !.acquisition_function = "XX"]}

Payloads(endpoint) ==
    SpacePayloads(endpoint) \cup BackendPayloads(endpoint) \cup MalformedPayloads

\* history rows over the declared names: evaluated or pending; and the
\* histories of one row that validate_existing_data refuses
EvaluatedRow(names) ==
    [k \in {names[i] : i \in 1..Len(names)} \cup {"objective"} |->
        IF k = "objective" THEN Num(0) ELSE Num(1)]
PendingRow(names) == [EvaluatedRow(names) EXCEPT !["objective"] = EmptyStr]
SeqsUpTo(S, n) == UNION {[1..m -> S] : m \in 0..n}
Histories(names) == SeqsUpTo({EvaluatedRow(names), PendingRow(names)}, MaxHistory)
RefusedHistories ==
    {<<[EvaluatedRow(<<"x">>) EXCEPT !["objective"] = v]>> :
        v \in {NaN, Inf(1), Str("abc")}}
    \cup {<<[EvaluatedRow(<<"x">>) EXCEPT !["x"] = v]>> : v \in {NaN, Str("abc"), None}}
    \cup {<<[k \in {"objective"} |-> Num(0)]>>}
    \cup {<<EvaluatedRow(<<"x">>), [EvaluatedRow(<<"x">>) EXCEPT !["x"] = Str("abc")]>>}
    \cup {<<[k \in {"x", "objective", "repeated"} |->
                IF k = "repeated" THEN Num(10001) ELSE Num(1)]>>}
    \cup {<<[PendingRow(<<"x">>) EXCEPT !["x"] = Str("abc")]>>,
          <<[k \in {"objective"} |-> None]>>,
          <<[k \in {"x"} |-> NaN]>>}

GoodHeaders == [x_user_email |-> "a@gmail.com", x_goog_email |-> "", bearer |-> ""]
BadHeaders ==
    {[x_user_email |-> "", x_goog_email |-> "", bearer |-> ""],
     [x_user_email |-> "c@corp.com", x_goog_email |-> "", bearer |-> "jwt:a@gmail.com"]}

Request(endpoint, headers, json, has, payload, history) ==
    [endpoint |-> endpoint, headers |-> headers, has_json |-> json,
     has_settings |-> has, settings |-> payload, existing_data |-> history]

\* authenticated requests with every payload (and history); a request
\* without body, one without settings, and the unauthenticated ones
Requests(endpoint) ==
    LET base == UnitPayload(1, <<"SKOPT", "GP">>, 1, 1)
        some == <<EvaluatedRow(base.param_names)>>
    IN  UNION {{Request(endpoint, GoodHeaders, TRUE, TRUE, p, h) :
                    h \in IF endpoint = "init" THEN {<<>>}
                          ELSE Histories(from_dict(p).param_names)} :
               p \in Payloads(endpoint)}
        \cup {Request(endpoint, GoodHeaders, TRUE, TRUE, base, h) :
                h \in IF endpoint = "init" THEN {} ELSE RefusedHistories}
        \cup {Request(endpoint, GoodHeaders, FALSE, FALSE, base, <<>>),
              Request(endpoint, GoodHeaders, TRUE, FALSE, base, some)}
        \cup {Request(endpoint, h, TRUE, TRUE, base, some) : h \in BadHeaders}

\* what the engine may do when asked for n points: raise somewhere, or
\* return k points, k from none to one more than asked
Quiet == [fail |-> "none", k |-> 0, corner |-> "lo"]
Answers(n) ==
    {[fail |-> f, k |-> 0, corner |-> "lo"] : f \in {"construct", "tell", "ask", "plot"}}
    \cup {[fail |-> "none", k |-> k, corner |-> c] :
            k \in 0..(n + 1), c \in {"lo", "hi"}}

NoRequest == Request("none", GoodHeaders, FALSE, FALSE, [fields |-> {}], <<>>)
NoResponse == Response(0, "", <<>>)
NoParse == [backend |-> "none", X |-> <<>>, y |-> <<>>]
LimiterUnused == clock = 0 /\ accepted = <<>> /\ workers = <<>>
NoApi ==
    [built |-> FALSE, build_tells |-> <<>>, tells |-> 0, X |-> <<>>, y |-> <<>>,
     asks |-> 0]
NoAsk ==
    [kind |-> "none", n |-> 0, k |-> 0, points |-> <<>>, fitted |-> FALSE,
     rows |-> <<>>, engine |-> [told |-> <<>>, asked |-> 0],
     X |-> <<>>, y |-> <<>>]

(***************************************************************************)
(* The service: one action per endpoint, then the request ends and its     *)
(* locals are gone.                                                        *)
(***************************************************************************)
Init ==
    /\ pc = "idle"
    /\ req = NoRequest
    /\ resp = NoResponse
    /\ calls = NoCalls
    /\ optimizer = NoOptimizer
    /\ optimizer_builder_loaded = FALSE
    /\ plots_loaded = FALSE
    /\ rate_limit_storage = <<>>
    /\ pin = [data |-> <<>>, names |-> <<>>]
    /\ pout = NoParse
    /\ api = NoApi
    /\ last_ask = NoAsk
    /\ LimiterUnused

Answered(r, out) ==
    /\ pc' = "done"
    /\ req' = r
    /\ resp' = out.resp
    /\ calls' = out.calls
    /\ optimizer' = out.optimizer
    /\ optimizer_builder_loaded' = (optimizer_builder_loaded \/ out.calls.dispatch > 0)
    /\ UNCHANGED <<rate_limit_storage, pin, pout, api, last_ask>>
    /\ UNCHANGED limiterVars

InitOptimization ==
    /\ pc = "idle"
    /\ \E r \in Requests("init") :
         \E ans \in IF init_optimization(r, Quiet).calls.dispatch > 0
                    THEN Answers(from_dict(r.settings).num_init_points)
                    ELSE {Quiet} :
            /\ Answered(r, init_optimization(r, ans))
            /\ UNCHANGED plots_loaded

ContinueOptimization ==
    /\ pc = "idle"
    /\ \E r \in Requests("continue") :
         \E ans \in IF continue_optimization(r, Quiet).calls.dispatch > 0
                    THEN Answers(from_dict(r.settings).batch_size)
                    ELSE {Quiet} :
            /\ Answered(r, continue_optimization(r, ans))
            /\ UNCHANGED plots_loaded

GeneratePlot ==
    /\ pc = "idle"
    /\ \E r \in Requests("plot") :
         \E ans \in IF generate_plot(r, Quiet).calls.dispatch > 0
                    THEN Answers(0) ELSE {Quiet} :
            /\ Answered(r, generate_plot(r, ans))
            /\ plots_loaded' = (plots_loaded \/ authenticate_request(r.headers).ok)

Complete ==
    /\ pc = "done"
    /\ pc' = "idle"
    /\ req' = NoRequest
    /\ resp' = NoResponse
    /\ calls' = NoCalls
    /\ optimizer' = NoOptimizer
    /\ UNCHANGED <<optimizer_builder_loaded, plots_loaded, rate_limit_storage,
                   pin, pout, api, last_ask>>
    /\ UNCHANGED limiterVars

Next ==
    \/ InitOptimization
    \/ ContinueOptimization
    \/ GeneratePlot
    \/ Complete

Spec == Init /\ [][Next]_vars

(***************************************************************************)
(* parse_training_data on its own: a history and a list of names, and the  *)
(* result of one of the three backends' parsers.                           *)
(***************************************************************************)
ParseRows(names) ==
    {[k \in ({names[i] : i \in 1..Len(names)} \ missing)
              \cup (IF obj = "absent" THEN {} ELSE {"objective"}) |->
        IF k = "objective"
        THEN CASE obj = "none" -> None
               [] obj = "empty" -> EmptyStr
               [] obj = "blank" -> Str(" ")
               [] obj = "zero" -> Num(0)
               [] obj = "nan" -> NaN
               [] OTHER -> Str("abc")
        ELSE IF k = "x" THEN x ELSE Num(1)] :
        missing \in {{}, {"x"}},
        x \in {Num(1), Str("abc")},
        obj \in {"absent", "none", "empty", "blank", "zero", "nan", "text"}}
ParseInputs(n) ==
    {[data |-> h, names |-> DistinctNames(n)] :
        h \in SeqsUpTo(ParseRows(DistinctNames(n)), MaxHistory)}

InitParse ==
    /\ pc = "idle"
    /\ req = NoRequest
    /\ resp = NoResponse
    /\ calls = NoCalls
    /\ optimizer = NoOptimizer
    /\ optimizer_builder_loaded = FALSE
    /\ plots_loaded = FALSE
    /\ rate_limit_storage = <<>>
    /\ \E n \in 1..MaxParams : pin \in ParseInputs(n)
    /\ pout = NoParse
    /\ api = NoApi
    /\ last_ask = NoAsk
    /\ LimiterUnused

Parsed(backend, result) ==
    /\ pout' = [backend |-> backend, X |-> result.X, y |-> result.y]
    /\ UNCHANGED <<pc, req, resp, calls, optimizer, optimizer_builder_loaded,
                   plots_loaded, rate_limit_storage, pin, api, last_ask>>
    /\ UNCHANGED limiterVars

ParseSkopt == Parsed("skopt", skopt_parse_training_data(pin.data, pin.names))
ParseNevergrad == Parsed("nevergrad", nevergrad_parse_training_data(pin.data, pin.names))
ParseSnobfit == Parsed("snobfit", snobfit_parse_training_data(pin.data, pin.names))

NextParse ==
    \/ ParseSkopt
    \/ ParseNevergrad
    \/ ParseSnobfit

SpecParse == InitParse /\ [][NextParse]_vars

(***************************************************************************)
(* The evolutionary and branch-and-fit adapters (src/opt_nevergrad.py,     *)
(* src/opt_snobfit.py).  The nevergrad engine instance is the record       *)
(* [told, asked]: the evaluations it was told, in order, and the number    *)
(* of points it has handed out since it was created.                       *)
(***************************************************************************)
Min(a, b) == IF a < b THEN a ELSE b
Zip(xs, ys) == [i \in 1..Min(Len(xs), Len(ys)) |-> <<xs[i], ys[i]>>]

\* a point at the lower or the upper corner of the search space
CornerPoint(param_mins, param_maxes, corner) ==
    [d \in 1..Len(param_mins) |->
        IF corner = "lo" THEN float(param_mins[d]).val ELSE float(param_maxes[d]).val]
Flip(corner) == IF corner = "lo" THEN "hi" ELSE "lo"

\* NevergradOptimizer._create_optimizer
create_optimizer == [told |-> <<>>, asked |-> 0]

\* NevergradOptimizer.__init__
NevergradOptimizer(param_names, param_mins, param_maxes, optimizer_name) ==
    [kind |-> "nevergrad",
     param_names |-> param_names,
     param_mins |-> param_mins,
     param_maxes |-> param_maxes,
     optimizer_name |-> optimizer_name,
     x_history |-> <<>>,
     y_history |-> <<>>,
     engine |-> create_optimizer]

\* NevergradOptimizer._replay_history
replay_history(opt) ==
    IF opt.x_history = <<>> THEN opt
    ELSE [opt EXCEPT !.engine =
            [create_optimizer EXCEPT !.told = Zip(opt.x_history, opt.y_history)]]

\* NevergradOptimizer.ask: replay, then n_points engine asks; `engine` is
\* the engine instance as it is when the first point is drawn
NevergradAsk(opt, n_points, corner) ==
    LET replayed == replay_history(opt)
    IN  [optimizer |-> [replayed EXCEPT !.engine.asked = @ + n_points],
         engine |-> replayed.engine,
         points |-> [j \in 1..n_points |->
                        CornerPoint(opt.param_mins, opt.param_maxes,
                                    IF j % 2 = 1 THEN corner ELSE Flip(corner))]]

NevergradTellReplaces(opt, x_data, y_data) ==
    IF x_data = <<>> \/ y_data = <<>> THEN opt
    ELSE [opt EXCEPT !.x_history = x_data, !.y_history = y_data]

\* NevergradOptimizer.tell
NevergradTell(opt, x_data, y_data) ==
    IF x_data = <<>> \/ y_data = <<>> THEN opt
    ELSE [opt EXCEPT !.x_history = @ \o x_data, !.y_history = @ \o y_data]

\* opt_nevergrad.build_optimizer: name_mapping
name_mapping(optimizer_name) ==
    IF Upper(optimizer_name) \in {"NEVERGRAD", "NGOPT"} THEN "OnePlusOne"
    ELSE optimizer_name

build_nevergrad_optimizer_by_row(param_names, param_mins, param_maxes, optimizer_name, existing_data) ==
    LET made == NevergradOptimizer(param_names, param_mins, param_maxes,
                                   name_mapping(optimizer_name))
        train == nevergrad_parse_training_data(existing_data, param_names)
    IN  [optimizer |-> NevergradTell(made, train.X, train.y),
         tells |-> [i \in 1..Len(train.X) |->
                       [X |-> <<train.X[i]>>, y |-> <<train.y[i]>>]]]

\* opt_nevergrad.build_optimizer; tells is the data of each tell call made
build_nevergrad_optimizer(param_names, param_mins, param_maxes, optimizer_name, existing_data) ==
    LET made == NevergradOptimizer(param_names, param_mins, param_maxes,
                                   name_mapping(optimizer_name))
        train == nevergrad_parse_training_data(existing_data, param_names)
    IN  IF existing_data # <<>> /\ train.X # <<>>
        THEN [optimizer |-> NevergradTell(made, train.X, train.y),
              tells |-> <<train>>]
        ELSE [optimizer |-> made, tells |-> <<>>]

\* SnobfitOptimizer.__init__; request is the number of rows of the last
\* engine request, -1 for None
SnobfitOptimizer(param_names, param_mins, param_maxes) ==
    [kind |-> "snobfit",
     param_names |-> param_names,
     param_mins |-> param_mins,
     param_maxes |-> param_maxes,
     x_data |-> <<>>,
     y_data |-> <<>>,
     request |-> -1,
     iteration |-> 0]

\* np.random.uniform(bounds[:, 0], bounds[:, 1]), m times
RandomPoints(opt, m, corner) ==
    [j \in 1..m |-> CornerPoint(opt.param_mins, opt.param_maxes, corner)]

\* the rows of the request snobfit() returns: k of them, inside the bounds
SnobfitRows(opt, k, corner) ==
    [j \in 1..k |->
        CornerPoint(opt.param_mins, opt.param_maxes,
                    IF j % 2 = 1 THEN corner ELSE Flip(corner))]

SnobfitAskUnpadded(opt, n_points, ans) ==
    IF Len(opt.x_data) = 0
    THEN [optimizer |-> [opt EXCEPT !.iteration = @ + 1],
          fitted |-> FALSE, rows |-> <<>>,
          points |-> RandomPoints(opt, n_points, ans.random)]
    ELSE [optimizer |-> [opt EXCEPT !.request = ans.k, !.iteration = @ + 1],
          fitted |-> TRUE, rows |-> SnobfitRows(opt, ans.k, ans.corner),
          points |-> SnobfitRows(opt, ans.k, ans.corner)]

SnobfitAskAlwaysFits(opt, n_points, ans) ==
    LET rows == SnobfitRows(opt, ans.k, ans.corner)
        padded == IF Len(rows) < n_points
                  THEN rows \o RandomPoints(opt, n_points - Len(rows), ans.random)
                  ELSE rows
    IN  [optimizer |-> [opt EXCEPT !.request = ans.k, !.iteration = @ + 1],
         fitted |-> TRUE, rows |-> rows,
         points |-> SubSeq(padded, 1, n_points)]

\* SnobfitOptimizer.ask: fitted tells whether snobfit() was called, rows is
\* what it returned
SnobfitAsk(opt, n_points, ans) ==
    IF Len(opt.x_data) = 0
    THEN [optimizer |-> [opt EXCEPT !.iteration = @ + 1],
          fitted |-> FALSE, rows |-> <<>>,
          points |-> RandomPoints(opt, n_points, ans.random)]
    ELSE LET rows == SnobfitRows(opt, ans.k, ans.corner)
             padded == IF Len(rows) < n_points
                       THEN rows \o RandomPoints(opt, n_points - Len(rows), ans.random)
                       ELSE rows
             suggested_points == IF Len(padded) > n_points
                                 THEN SubSeq(padded, 1, n_points)
                                 ELSE padded
         IN  [optimizer |-> [opt EXCEPT !.request = ans.k, !.iteration = @ + 1],
              fitted |-> TRUE, rows |-> rows,
              points |-> suggested_points]

\* SnobfitOptimizer.tell
SnobfitTell(opt, x_data, y_data) ==
    IF x_data = <<>> \/ y_data = <<>> THEN opt
    ELSE IF Len(opt.x_data) = 0
    THEN [opt EXCEPT !.x_data = x_data, !.y_data = y_data]
    ELSE [opt EXCEPT !.x_data = @ \o x_data, !.y_data = @ \o y_data]

\* opt_snobfit.build_optimizer
build_snobfit_optimizer(param_names, param_mins, param_maxes, existing_data) ==
    LET made == SnobfitOptimizer(param_names, param_mins, param_maxes)
        train == snobfit_parse_training_data(existing_data, param_names)
    IN  IF existing_data # <<>> /\ train.X # <<>>
        THEN [optimizer |-> SnobfitTell(made, train.X, train.y),
              tells |-> <<train>>]
        ELSE [optimizer |-> made, tells |-> <<>>]

(***************************************************************************)
(* An adapter object on its own: built by one of the three backends'       *)
(* build_optimizer from a history, then told and asked in any order.  The  *)
(* rows given to tell are numbered from 10 on, so that every row told is   *)
(* different from every other.                                             *)
(***************************************************************************)
AdapterInputs ==
    UNION {{[data |-> h, names |-> DistinctNames(n)] :
                h \in Histories(DistinctNames(n))} :
           n \in 1..MaxParams}
UnitMins(names) == [i \in 1..Len(names) |-> Num(0)]
UnitMaxes(names) == [i \in 1..Len(names) |-> Num(1)]

RECURSIVE ConcatX(_)
ConcatX(tells) ==
    IF tells = <<>> THEN <<>> ELSE Head(tells).X \o ConcatX(Tail(tells))
RECURSIVE ConcatY(_)
ConcatY(tells) ==
    IF tells = <<>> THEN <<>> ELSE Head(tells).y \o ConcatY(Tail(tells))

\* the arguments of a tell call that brings m new evaluations (none or one)
TellData(m) ==
    [X |-> [j \in 1..m |-> [d \in 1..Len(pin.names) |-> Num(10 + Len(api.X) + j)]],
     y |-> [j \in 1..m |-> Num(10 + Len(api.y) + j)]]

InitAdapter ==
    /\ pc = "idle"
    /\ req = NoRequest
    /\ resp = NoResponse
    /\ calls = NoCalls
    /\ optimizer = NoOptimizer
    /\ optimizer_builder_loaded = FALSE
    /\ plots_loaded = FALSE
    /\ rate_limit_storage = <<>>
    /\ pin \in AdapterInputs
    /\ pout = NoParse
    /\ api = NoApi
    /\ last_ask = NoAsk
    /\ LimiterUnused

serviceVars == <<pc, req, resp, calls, optimizer_builder_loaded, plots_loaded,
                 rate_limit_storage>>

Built(made, tells) ==
    /\ ~api.built
    /\ optimizer' = made
    /\ api' = [built |-> TRUE, build_tells |-> tells, tells |-> Len(tells),
               X |-> ConcatX(tells), y |-> ConcatY(tells), asks |-> 0]
    /\ UNCHANGED <<serviceVars, pin, pout, last_ask>>
    /\ UNCHANGED limiterVars

BuildSkopt ==
    LET made == build_skopt_optimizer(pin.names, UnitMins(pin.names),
                                      UnitMaxes(pin.names), <<"GP">>, "EI",
                                      pin.data, Quiet)
    IN  Built(made.optimizer, made.calls.tells)
BuildNevergrad ==
    \E optimizer_name \in {"OnePlusOne", "NGOPT"} :
        LET made == build_nevergrad_optimizer(pin.names, UnitMins(pin.names),
                                              UnitMaxes(pin.names), optimizer_name,
                                              pin.data)
        IN  Built(made.optimizer, made.tells)
BuildSnobfit ==
    LET made == build_snobfit_optimizer(pin.names, UnitMins(pin.names),
                                        UnitMaxes(pin.names), pin.data)
    IN  Built(made.optimizer, made.tells)

Told(after, data) ==
    /\ api.tells + api.asks < MaxCalls
    /\ optimizer' = after
    /\ api' = [api EXCEPT !.tells = @ + 1, !.X = @ \o data.X, !.y = @ \o data.y]
    /\ UNCHANGED <<serviceVars, pin, pout, last_ask>>
    /\ UNCHANGED limiterVars

TellNevergrad ==
    /\ optimizer.kind = "nevergrad"
    /\ \E m \in 0..1 :
         Told(NevergradTell(optimizer, TellData(m).X, TellData(m).y), TellData(m))
TellSnobfit ==
    /\ optimizer.kind = "snobfit"
    /\ \E m \in 0..1 :
         Told(SnobfitTell(optimizer, TellData(m).X, TellData(m).y), TellData(m))

AskNevergrad ==
    /\ optimizer.kind = "nevergrad"
    /\ api.tells + api.asks < MaxCalls
    /\ \E n \in 1..MaxPoints :
         LET got == NevergradAsk(optimizer, n, "lo")
         IN  /\ optimizer' = got.optimizer
             /\ last_ask' = [NoAsk EXCEPT !.kind = "nevergrad", !.n = n,
                                          !.points = got.points,
                                          !.engine = got.engine,
                                          !.X = optimizer.x_history,
                                          !.y = optimizer.y_history]
    /\ api' = [api EXCEPT !.asks = @ + 1]
    /\ UNCHANGED <<serviceVars, pin, pout>>
    /\ UNCHANGED limiterVars

AskSnobfit ==
    /\ optimizer.kind = "snobfit"
    /\ api.tells + api.asks < MaxCalls
    /\ \E n \in 1..MaxPoints :
         \E k \in 0..(n + 1) :
            LET got == SnobfitAsk(optimizer, n,
                                  [k |-> k, corner |-> "lo", random |-> "hi"])
            IN  /\ optimizer' = got.optimizer
                /\ last_ask' = [NoAsk EXCEPT !.kind = "snobfit", !.n = n, !.k = k,
                                             !.points = got.points,
                                             !.fitted = got.fitted,
                                             !.rows = got.rows,
                                             !.X = optimizer.x_data,
                                             !.y = optimizer.y_data]
    /\ api' = [api EXCEPT !.asks = @ + 1]
    /\ UNCHANGED <<serviceVars, pin, pout>>
    /\ UNCHANGED limiterVars

NextAdapter ==
    \/ BuildSkopt
    \/ BuildNevergrad
    \/ BuildSnobfit
    \/ TellNevergrad
    \/ TellSnobfit
    \/ AskNevergrad
    \/ AskSnobfit

SpecAdapter == InitAdapter /\ [][NextAdapter]_vars

(***************************************************************************)
(* The /ping endpoint and its rate limiter (gsopt.check_rate_limit).       *)
(* _rate_limit_storage is a defaultdict(list): a caller never seen reads   *)
(* as the empty list.                                                      *)
(***************************************************************************)
RATE_LIMIT_WINDOW == 60
RATE_LIMIT_MAX_REQUESTS == 10

Callers == {"a@gmail.com", "b@gmail.com"}
EmptyStorage == [e \in Callers |-> <<>>]

\* ts > window_start
InWindow(ts, now) == ts > now - RATE_LIMIT_WINDOW
\* [ts for ts in entries if ts > window_start]
CleanOldEntries(entries, now) ==
    LET Recent(ts) == InWindow(ts, now)
    IN  SelectSeq(entries, Recent)

check_rate_limit_one_more(storage, email, now) ==
    LET cleaned == CleanOldEntries(storage[email], now)
    IN  IF Len(cleaned) > RATE_LIMIT_MAX_REQUESTS
        THEN [allowed |-> FALSE, storage |-> [storage EXCEPT ![email] = cleaned]]
        ELSE [allowed |-> TRUE,
              storage |-> [storage EXCEPT ![email] = Append(cleaned, now)]]

check_rate_limit_records_rejected(storage, email, now) ==
    LET cleaned == CleanOldEntries(storage[email], now)
    IN  [allowed |-> Len(cleaned) < RATE_LIMIT_MAX_REQUESTS,
         storage |-> [storage EXCEPT ![email] = Append(cleaned, now)]]

\* check_rate_limit, run without interruption
check_rate_limit(storage, email, now) ==
    LET cleaned == CleanOldEntries(storage[email], now)
    IN  IF Len(cleaned) >= RATE_LIMIT_MAX_REQUESTS
        THEN [allowed |-> FALSE, storage |-> [storage EXCEPT ![email] = cleaned]]
        ELSE [allowed |-> TRUE,
              storage |-> [storage EXCEPT ![email] = Append(cleaned, now)]]

ping_limits_first(headers, storage, now) ==
    LET auth == authenticate_request(headers)
        rate == check_rate_limit(storage,
                                 IF auth.ok THEN auth.email ELSE "a@gmail.com", now)
    IN  IF ~rate.allowed
        THEN [resp |-> Response(429, "Rate limit exceeded", <<>>),
              storage |-> rate.storage]
        ELSE IF ~auth.ok
        THEN [resp |-> Response(403, auth.msg, <<>>), storage |-> rate.storage]
        ELSE [resp |-> Response(200, "Server is ready", <<>>),
              storage |-> rate.storage]

\* ping
ping(headers, storage, now) ==
    LET auth == authenticate_request(headers)
        rate == check_rate_limit(storage, auth.email, now)
    IN  IF ~auth.ok
        THEN [resp |-> Response(403, auth.msg, <<>>), storage |-> storage]
        ELSE IF ~rate.allowed
        THEN [resp |-> Response(429, "Rate limit exceeded", <<>>),
              storage |-> rate.storage]
        ELSE [resp |-> Response(200, "Server is ready", <<>>),
              storage |-> rate.storage]

PingHeaders ==
    {GoodHeaders,
     [x_user_email |-> "", x_goog_email |-> "accounts.google.com:b@gmail.com",
      bearer |-> ""]}
    \cup BadHeaders

InitPing ==
    /\ pc = "idle"
    /\ req = NoRequest
    /\ resp = NoResponse
    /\ calls = NoCalls
    /\ optimizer = NoOptimizer
    /\ optimizer_builder_loaded = FALSE
    /\ plots_loaded = FALSE
    /\ rate_limit_storage = EmptyStorage
    /\ pin = [data |-> <<>>, names |-> <<>>]
    /\ pout = NoParse
    /\ api = NoApi
    /\ last_ask = NoAsk
    /\ clock = 0
    /\ accepted = [log |-> EmptyStorage, handled |-> 0, at |-> 0]
    /\ workers = <<>>

Ping ==
    /\ accepted.handled < MaxPings
    /\ \E headers \in PingHeaders :
         LET out == ping(headers, rate_limit_storage, clock)
             email == authenticate_request(headers).email
         IN  /\ req' = Request("ping", headers, FALSE, FALSE, [fields |-> {}], <<>>)
             /\ resp' = out.resp
             /\ rate_limit_storage' = out.storage
             /\ accepted' = [handled |-> accepted.handled + 1,
                             at |-> clock,
                             log |-> IF out.resp.status = 200
                                     THEN [accepted.log EXCEPT ![email] = Append(@, clock)]
                                     ELSE accepted.log]
    /\ UNCHANGED <<pc, calls, optimizer, optimizer_builder_loaded, plots_loaded,
                   pin, pout, api, last_ask, clock, workers>>

Tick ==
    /\ clock + TickStep <= MaxClock
    /\ clock' = clock + TickStep
    /\ UNCHANGED <<pc, req, resp, calls, optimizer, optimizer_builder_loaded,
                   plots_loaded, rate_limit_storage, pin, pout, api, last_ask,
                   accepted, workers>>

NextPing ==
    \/ Ping
    \/ Tick

SpecPing == InitPing /\ [][NextPing]_vars

(***************************************************************************)
(* check_rate_limit run by several threads of one process for the same     *)
(* caller.  Nothing in the function takes a lock, so a thread can be       *)
(* suspended between building the cleaned list and storing it, between     *)
(* storing it and testing its length, and between the test and the append. *)
(* The record starts as any record that pings handled one at a time can    *)
(* leave.                                                                  *)
(***************************************************************************)
Caller == "a@gmail.com"
Threads == 1..MaxWorkers
IdleThread == [pc |-> "idle", cleaned |-> <<>>, allowed |-> "none"]

InitRace ==
    /\ pc = "idle"
    /\ req = NoRequest
    /\ resp = NoResponse
    /\ calls = NoCalls
    /\ optimizer = NoOptimizer
    /\ optimizer_builder_loaded = FALSE
    /\ plots_loaded = FALSE
    /\ pin = [data |-> <<>>, names |-> <<>>]
    /\ pout = NoParse
    /\ api = NoApi
    /\ last_ask = NoAsk
    /\ clock = 0
    /\ \E k \in 0..RATE_LIMIT_MAX_REQUESTS :
         /\ rate_limit_storage = [EmptyStorage EXCEPT ![Caller] = [i \in 1..k |-> 0]]
         /\ accepted = [log |-> rate_limit_storage, handled |-> k, at |-> 0]
    /\ workers = [t \in Threads |-> IdleThread]

raceFrame == <<pc, req, resp, calls, optimizer, optimizer_builder_loaded,
               plots_loaded, pin, pout, api, last_ask, clock>>

\* [ts for ts in _rate_limit_storage[email] if ts > window_start]
CleanRead(t) ==
    /\ workers[t].pc = "idle"
    /\ accepted.handled < MaxPings
    /\ workers' = [workers EXCEPT ![t] =
                     [pc |-> "cleaned", allowed |-> "none",
                      cleaned |-> CleanOldEntries(rate_limit_storage[Caller], clock)]]
    /\ accepted' = [accepted EXCEPT !.handled = @ + 1, !.at = clock]
    /\ UNCHANGED <<raceFrame, rate_limit_storage>>

\* _rate_limit_storage[email] = <the cleaned list>
CleanWrite(t) ==
    /\ workers[t].pc = "cleaned"
    /\ rate_limit_storage' = [rate_limit_storage EXCEPT ![Caller] = workers[t].cleaned]
    /\ workers' = [workers EXCEPT ![t].pc = "stored"]
    /\ UNCHANGED <<raceFrame, accepted>>

\* if len(_rate_limit_storage[email]) >= _RATE_LIMIT_MAX_REQUESTS: return False
LengthCheck(t) ==
    /\ workers[t].pc = "stored"
    /\ workers' = [workers EXCEPT ![t] =
                     IF Len(rate_limit_storage[Caller]) >= RATE_LIMIT_MAX_REQUESTS
                     THEN [pc |-> "idle", cleaned |-> <<>>, allowed |-> "no"]
                     ELSE [@ EXCEPT !.pc = "checked"]]
    /\ UNCHANGED <<raceFrame, rate_limit_storage, accepted>>

\* _rate_limit_storage[email].append(now); return True
AppendNow(t) ==
    /\ workers[t].pc = "checked"
    /\ rate_limit_storage' = [rate_limit_storage EXCEPT ![Caller] = Append(@, clock)]
    /\ accepted' = [accepted EXCEPT !.log[Caller] = Append(@, clock)]
    /\ workers' = [workers EXCEPT ![t] =
                     [pc |-> "idle", cleaned |-> <<>>, allowed |-> "yes"]]
    /\ UNCHANGED raceFrame

NextRace ==
    \/ \E t \in Threads : CleanRead(t)
    \/ \E t \in Threads : CleanWrite(t)
    \/ \E t \in Threads : LengthCheck(t)
    \/ \E t \in Threads : AppendNow(t)

SpecRace == InitRace /\ [][NextRace]_vars

(***************************************************************************)
(* The five endpoints behind authenticate_request: requests that differ in *)
(* the credentials they carry, one at a time, against the rate-limit       *)
(* record of the process.                                                  *)
(***************************************************************************)
AuthHeaders ==
    {[x_user_email |-> u, x_goog_email |-> g, bearer |-> b] :
        u \in {"", "a@gmail.com", "c@corp.com"},
        g \in {"", "accounts.google.com:b@gmail.com", "c@corp.com"},
        b \in {"", "jwt:a@gmail.com", "jwt:c@corp.com", "jwt:sub:b@gmail.com",
               "jwt:none", "garbage"}}

\* a valid and an invalid payload, an accepted and a refused history
AuthBodies(endpoint) ==
    LET base == UnitPayload(1, <<"SKOPT", "GP">>, 1, 1)
        good == <<EvaluatedRow(base.param_names)>>
        bad == <<[EvaluatedRow(base.param_names) EXCEPT !["x"] = Str("abc")]>>
    IN  {[settings |-> p, existing_data |-> h] :
            p \in {base, [base EXCEPT !.num_params = 101]},
            h \in IF endpoint \in {"continue", "plot"} THEN {good, bad} ELSE {<<>>}}

AuthRequests(endpoint) ==
    {Request(endpoint, h, TRUE, TRUE, b.settings, b.existing_data) :
        h \in AuthHeaders, b \in AuthBodies(endpoint)}

\* the engine returns the points it was asked for
Obliging(n) == [fail |-> "none", k |-> n, corner |-> "lo"]

InitAuth ==
    /\ pc = "idle"
    /\ req = NoRequest
    /\ resp = NoResponse
    /\ calls = NoCalls
    /\ optimizer = NoOptimizer
    /\ optimizer_builder_loaded = FALSE
    /\ plots_loaded = FALSE
    /\ rate_limit_storage = EmptyStorage
    /\ pin = [data |-> <<>>, names |-> <<>>]
    /\ pout = NoParse
    /\ api = NoApi
    /\ last_ask = NoAsk
    /\ clock = 0
    /\ accepted = [log |-> EmptyStorage, handled |-> 0, at |-> 0]
    /\ workers = <<>>

Served(r, out) ==
    /\ pc' = "done"
    /\ req' = r
    /\ resp' = out.resp
    /\ calls' = out.calls
    /\ optimizer' = out.optimizer
    /\ optimizer_builder_loaded' = (optimizer_builder_loaded \/ out.calls.dispatch > 0)
    /\ plots_loaded' = (plots_loaded \/ (r.endpoint = "plot"
                                          /\ authenticate_request(r.headers).ok))
    /\ UNCHANGED <<rate_limit_storage, pin, pout, api, last_ask>>
    /\ UNCHANGED limiterVars

ServeInit ==
    /\ pc = "idle"
    /\ \E r \in AuthRequests("init") : Served(r, init_optimization(r, Obliging(1)))
ServeContinue ==
    /\ pc = "idle"
    /\ \E r \in AuthRequests("continue") :
         Served(r, continue_optimization(r, Obliging(1)))
ServePlot ==
    /\ pc = "idle"
    /\ \E r \in AuthRequests("plot") : Served(r, generate_plot(r, Obliging(0)))
ServeTestConnection ==
    /\ pc = "idle"
    /\ \E r \in AuthRequests("test-connection") : Served(r, test_connection(r))
ServePing ==
    /\ pc = "idle"
    /\ accepted.handled < MaxAuthPings
    /\ \E r \in AuthRequests("ping") :
         LET out == ping(r.headers, rate_limit_storage, clock)
             email == authenticate_request(r.headers).email
         IN  /\ req' = r
             /\ resp' = out.resp
             /\ rate_limit_storage' = out.storage
             /\ accepted' = [handled |-> accepted.handled + 1,
                             at |-> clock,
                             log |-> IF out.resp.status = 200
                                     THEN [accepted.log EXCEPT ![email] = Append(@, clock)]
                                     ELSE accepted.log]
    /\ pc' = "done"
    /\ UNCHANGED <<calls, optimizer, optimizer_builder_loaded, plots_loaded,
                   pin, pout, api, last_ask, clock, workers>>

NextAuth ==
    \/ ServeInit
    \/ ServeContinue
    \/ ServePlot
    \/ ServeTestConnection
    \/ ServePing
    \/ Complete

SpecAuth == InitAuth /\ [][NextAuth]_vars

(***************************************************************************)
(* Properties.                                                             *)
(***************************************************************************)
ReqSettings == from_dict(IF req.has_settings THEN req.settings ELSE [fields |-> {}])
Authenticated == authenticate_request(req.headers).ok
Accepted ==
    /\ Authenticated /\ req.has_json /\ req.has_settings
    /\ validate_optimizer_settings(req.settings) = ""
    /\ req.endpoint = "continue"
         => validate_existing_data(req.existing_data, ReqSettings) = ""
Within(v, min, max) ==
    /\ FloatGE(v, float(min).val)
    /\ FloatGE(float(max).val, v)
\* every declared dimension has a value in the record, inside its interval
RecordInBounds(rec, s) ==
    \A i \in 1..Len(s.param_names) :
        /\ HasKey(rec, s.param_names[i])
        /\ Within(rec[s.param_names[i]], s.param_mins[i], s.param_maxes[i])

\* C1: a successful /continue-optimization response holds exactly
\* settings.batch_size records, whatever number of points the engine's ask
\* returned.
C1_ContinueReturnsBatchSize ==
    (pc = "done" /\ req.endpoint = "continue" /\ resp.status = 200)
        => Len(resp.data) = ReqSettings.batch_size

\* C2: a successful /init-optimization response holds exactly
\* num_init_points records, each with an empty objective and every
\* parameter inside its declared [min, max].
C2_InitReturnsInitPoints ==
    (pc = "done" /\ req.endpoint = "init" /\ resp.status = 200)
        => /\ Len(resp.data) = ReqSettings.num_init_points
           /\ \A j \in 1..Len(resp.data) :
                /\ resp.data[j]["objective"] = EmptyStr
                /\ RecordInBounds(resp.data[j], ReqSettings)

\* C3: when some dimension of the submitted search space has min >= max, an
\* init or continue request ends in an error response, and neither
\* build_optimizer nor an engine constructor is called.
SomeMinNotBelowMax ==
    /\ req.has_settings
    /\ \E i \in 1..Len(ReqSettings.param_mins) :
         /\ i <= Len(ReqSettings.param_maxes)
         /\ float(ReqSettings.param_mins[i]).exc = ""
         /\ float(ReqSettings.param_maxes[i]).exc = ""
         /\ FloatGE(float(ReqSettings.param_mins[i]).val,
                    float(ReqSettings.param_maxes[i]).val)
C3_BoundsRejectedBeforeConstruction ==
    (pc = "done" /\ req.endpoint \in {"init", "continue"} /\ SomeMinNotBelowMax)
        => /\ resp.status >= 400
           /\ resp.data = <<>>
           /\ calls.dispatch = 0
           /\ calls.constructed = <<>>
C3_Witness ==
    /\ pc = "done"
    /\ req.endpoint = "init"
    /\ Authenticated
    /\ SomeMinNotBelowMax
    /\ ReqSettings.param_mins = ReqSettings.param_maxes
    /\ resp.status = 400
    /\ resp.message = "min must be < max"

\* C4: parse_training_data returns exactly the records whose objective is
\* present and a valid finite number, in their order: y holds their
\* objectives, X their parameter vectors, and nothing else contributes.
ValidObjective(row) ==
    /\ HasKey(row, "objective")
    /\ float(row["objective"]).exc = ""
    /\ isfinite(float(row["objective"]).val)
EvaluatedRecords(data) == SelectSeq(data, ValidObjective)
C4_ParseKeepsEvaluatedRecords ==
    pout.backend # "none"
        => LET kept == EvaluatedRecords(pin.data)
           IN  /\ Len(pout.X) = Len(kept)
               /\ Len(pout.y) = Len(kept)
               /\ \A i \in 1..Len(kept) :
                    /\ pout.y[i] = float(kept[i]["objective"]).val
                    /\ \A d \in 1..Len(pin.names) :
                         HasKey(kept[i], pin.names[d])
                            => pout.X[i][d] = float(kept[i][pin.names[d]]).val

\* C6: the adapter of a request is built from that request's settings and
\* history alone: it holds the request's search space and exactly the
\* training set parsed from the request's history, one engine was
\* constructed for it, and nothing of it outlives the request; the
\* rate-limit record is the only other process-wide data and no
\* optimisation request writes it.
C6_AdapterBuiltFromRequestOnly ==
    /\ rate_limit_storage = <<>>
    /\ pc = "idle" => (optimizer = NoOptimizer /\ calls = NoCalls)
    /\ (pc = "done" /\ optimizer # NoOptimizer)
         => LET train == skopt_parse_training_data(req.existing_data,
                                                   ReqSettings.param_names)
            IN  /\ optimizer.param_names = ReqSettings.param_names
                /\ optimizer.param_mins = ReqSettings.param_mins
                /\ optimizer.param_maxes = ReqSettings.param_maxes
                /\ optimizer.Xi = train.X
                /\ optimizer.yi = train.y
                /\ Len(calls.constructed) = 1
                /\ calls.tells = IF train.X = <<>> THEN <<>> ELSE <<train>>
C6_Witness ==
    /\ pc = "done"
    /\ req.endpoint = "continue"
    /\ plots_loaded
    /\ optimizer # NoOptimizer
    /\ Len(optimizer.Xi) = 1
    /\ Len(req.existing_data) = 2
    /\ resp.status = 200

\* C7: a continue request with the backend "RANDOM" and a non-empty valid
\* history succeeds with exactly batch_size in-bounds points, and nothing is
\* told to any engine.
C7_RandomBackendSucceeds ==
    (/\ pc = "done" /\ req.endpoint = "continue"
     /\ Authenticated /\ req.has_json /\ req.has_settings
     /\ ReqSettings.base_estimator = <<"RANDOM">>
     /\ validate_optimizer_settings(
            [req.settings EXCEPT !.base_estimator = <<"SKOPT", "GP">>]) = ""
     /\ req.existing_data # <<>>
     /\ validate_existing_data(req.existing_data, ReqSettings) = "")
        => /\ resp.status = 200
           /\ Len(resp.data) = ReqSettings.batch_size
           /\ \A j \in 1..Len(resp.data) : RecordInBounds(resp.data[j], ReqSettings)
           /\ calls.tells = <<>>

\* C8: for an identifier PREFIX-ALGORITHM, build_optimizer matches PREFIX
\* case-insensitively against the engine families and hands ALGORITHM to the
\* chosen family with its casing unchanged.
EngineFamilies == {"SKOPT", "NEVERGRAD", "SNOBFIT"}
C8_AlgorithmKeepsCasing ==
    (/\ pc = "done" /\ calls.dispatch > 0
     /\ Len(ReqSettings.base_estimator) > 1
     /\ Upper(ReqSettings.base_estimator[1]) \in EngineFamilies)
        => /\ Len(calls.constructed) = 1
           /\ calls.constructed[1].family = Upper(ReqSettings.base_estimator[1])
           /\ calls.constructed[1].algo = Tail(ReqSettings.base_estimator)

\* C9: a bare identifier naming a recognised estimator, such as "GP", is
\* dispatched to the surrogate-model adapter, so an accepted init or
\* continue request using it constructs that adapter and is not answered
\* with a dispatch error.
C9_BareEstimatorDispatched ==
    (/\ pc = "done" /\ req.endpoint \in {"init", "continue"}
     /\ Accepted
     /\ Len(ReqSettings.base_estimator) = 1
     /\ ReqSettings.base_estimator[1] \in valid_estimators)
        => /\ Len(calls.constructed) = 1
           /\ calls.constructed[1].family = "SKOPT"
           /\ calls.constructed[1].algo = ReqSettings.base_estimator

\* C10: a request whose backend identifier has an unrecognised prefix or
\* bare name is answered with an error (the dispatcher's own when the
\* dispatcher was reached), and no adapter is constructed, trained or asked.
Unrecognised(ident) ==
    IF Len(ident) > 1 THEN Upper(ident[1]) \notin EngineFamilies
    ELSE ident[1] \notin valid_estimators \cup {"SNOBFIT", "RANDOM"}
UnknownType == "ValueError: Unknown or unsupported optimizer type"
C11_AcceptedIdentifierResolves ==
    (pc = "done" /\ req.endpoint \in {"init", "continue"} /\ Accepted)
        => /\ calls.dispatch = 1
           /\ build_optimizer(ReqSettings, req.existing_data, Quiet).exc # UnknownType
           /\ Len(calls.constructed) = 1

\* the evaluations an adapter object holds, and the parser of its backend
Stored(opt) ==
    CASE opt.kind = "skopt" -> [X |-> opt.Xi, y |-> opt.yi]
      [] opt.kind = "nevergrad" -> [X |-> opt.x_history, y |-> opt.y_history]
      [] opt.kind = "snobfit" -> [X |-> opt.x_data, y |-> opt.y_data]
      [] OTHER -> [X |-> <<>>, y |-> <<>>]
ParsedFor(opt) ==
    CASE opt.kind = "skopt" -> skopt_parse_training_data(pin.data, pin.names)
      [] opt.kind = "nevergrad" -> nevergrad_parse_training_data(pin.data, pin.names)
      [] OTHER -> snobfit_parse_training_data(pin.data, pin.names)
InUnitBounds(point) ==
    \A d \in 1..Len(point) : Within(point[d], Num(0), Num(1))

\* C12: each backend's build_optimizer calls the adapter's tell exactly
\* once, with the whole parsed training set, when that set is not empty,
\* and never when the history is empty or holds no evaluated record; the
\* adapter it returns holds exactly that set and has not been asked.
C12_BuilderTellsOnce ==
    api.built
        => LET train == ParsedFor(optimizer)
           IN  /\ api.build_tells = IF train.X = <<>> THEN <<>> ELSE <<train>>
               /\ Len(api.build_tells) <= 1
               /\ (api.tells = Len(api.build_tells) /\ api.asks = 0)
                    => /\ Stored(optimizer) = [X |-> train.X, y |-> train.y]
                       /\ last_ask = NoAsk
C12_Witness ==
    /\ api.built
    /\ optimizer.kind = "nevergrad"
    /\ Len(pin.data) = 2
    /\ Len(api.build_tells) = 1
    /\ Len(api.build_tells[1].X) = 2
    /\ api.tells = 1
    /\ api.asks = 0

\* C13: every NevergradOptimizer.ask draws its points from a freshly
\* constructed engine that has been told every stored (x, y) pair, in
\* order, and nothing else.
C13_AskUsesFreshReplayedEngine ==
    last_ask.kind = "nevergrad"
        => /\ last_ask.engine.asked = 0
           /\ last_ask.engine.told = Zip(last_ask.X, last_ask.y)
           /\ Len(last_ask.engine.told) = Len(last_ask.X)

\* C14: with data stored, SnobfitOptimizer.ask(n) returns exactly n
\* points whatever number k of rows the engine returned: the first
\* min(k, n) are the engine's rows, in order, and the others lie inside
\* the bounds.
C14_SnobfitPadsAndTruncates ==
    (last_ask.kind = "snobfit" /\ last_ask.X # <<>>)
        => /\ Len(last_ask.rows) = last_ask.k
           /\ Len(last_ask.points) = last_ask.n
           /\ \A j \in 1..last_ask.n :
                IF j <= last_ask.k
                THEN last_ask.points[j] = last_ask.rows[j]
                ELSE InUnitBounds(last_ask.points[j])
C14_Witness ==
    /\ last_ask.kind = "snobfit"
    /\ Len(last_ask.X) = 2
    /\ last_ask.n = 2
    /\ last_ask.k = 1
    /\ Len(last_ask.points) = 2
    /\ last_ask.points[2] # last_ask.points[1]

\* C15: with no data stored, SnobfitOptimizer.ask(n) returns n points
\* inside the bounds and does not call snobfit(); snobfit() is called only
\* when at least one evaluation is stored.
C15_SnobfitRandomWithoutData ==
    /\ last_ask.kind = "snobfit"
         => /\ last_ask.fitted <=> last_ask.X # <<>>
            /\ last_ask.X = <<>>
                 => /\ Len(last_ask.points) = last_ask.n
                    /\ last_ask.rows = <<>>
                    /\ \A j \in 1..last_ask.n : InUnitBounds(last_ask.points[j])
    /\ (optimizer.kind = "snobfit" /\ optimizer.request # -1)
         => optimizer.x_data # <<>>
C15_Witness ==
    /\ last_ask.kind = "snobfit"
    /\ last_ask.X = <<>>
    /\ last_ask.n = 2
    /\ ~last_ask.fitted
    /\ Len(pin.data) = 2
    /\ api.tells = 1
    /\ optimizer.iteration = 1
    /\ optimizer.request = -1

\* C16: a Nevergrad or Snobfit adapter always holds the concatenation, in
\* call order, of the data of all the tell calls made on it: tell
\* accumulates, ask changes nothing of it, and X and y have the same
\* number of rows.
C16_TellAccumulates ==
    optimizer.kind \in {"nevergrad", "snobfit"}
        => /\ Stored(optimizer).X = api.X
           /\ Stored(optimizer).y = api.y
           /\ Len(Stored(optimizer).X) = Len(Stored(optimizer).y)
C16_Witness ==
    /\ optimizer.kind = "nevergrad"
    /\ api.tells = 2
    /\ api.asks = 1
    /\ Len(api.build_tells) = 1
    /\ Len(optimizer.x_history) = 3
    /\ last_ask.kind = "nevergrad"
    /\ Len(last_ask.X) = 2

\* the accepted pings of a caller that fall in the window ending at time t
AcceptedInWindow(e, t) ==
    {i \in 1..Len(accepted.log[e]) :
        InWindow(accepted.log[e][i], t) /\ accepted.log[e][i] <= t}

\* C17: with pings handled one at a time, no caller has more than 10 pings
\* accepted in a window of 60 seconds: a ping is answered 200 while fewer
\* than 10 of the caller's pings were accepted in the window that ends
\* with it, and 429 once 10 were.
C17_TenPingsPerWindow ==
    /\ \A e \in Callers : \A t \in 0..MaxClock :
         Cardinality(AcceptedInWindow(e, t)) <= RATE_LIMIT_MAX_REQUESTS
    /\ (req.endpoint = "ping" /\ Authenticated)
         => LET e == authenticate_request(req.headers).email
                n == Cardinality(AcceptedInWindow(e, accepted.at))
            IN  /\ resp.status \in {200, 429}
                /\ resp.status = 429 => n = RATE_LIMIT_MAX_REQUESTS
                /\ resp.status = 200
                     => /\ accepted.log[e] # <<>>
                        /\ accepted.log[e][Len(accepted.log[e])] = accepted.at
                /\ CleanOldEntries(rate_limit_storage[e], accepted.at)
                     = [i \in 1..n |-> rate_limit_storage[e][i + Len(rate_limit_storage[e]) - n]]
C17_Witness ==
    /\ req.endpoint = "ping"
    /\ req.headers = GoodHeaders
    /\ resp.status = 429
    /\ clock = TickStep
    /\ accepted.at = TickStep
    /\ Len(accepted.log["a@gmail.com"]) = RATE_LIMIT_MAX_REQUESTS
    /\ accepted.log["a@gmail.com"][1] = 0
    /\ accepted.log["b@gmail.com"] = <<>>

\* C18: with several threads running check_rate_limit for one caller, the
\* caller's record is updated atomically: never more than 10 pings are
\* accepted in the window, and once no call is in progress every accepted
\* timestamp is in the record.
C18_ConcurrentChecksStayAtomic ==
    workers # <<>>
        => /\ Cardinality(AcceptedInWindow(Caller, clock)) <= RATE_LIMIT_MAX_REQUESTS
           /\ (\A t \in Threads : workers[t].pc = "idle")
                => rate_limit_storage[Caller] = accepted.log[Caller]

\* C19: a request that exceeds a resource limit (more than 100 parameters,
\* 1000 initial points, a batch of 100 or 10000 history records) is
\* answered with an error, and no optimizer is constructed, told or asked.
ExceedsLimit ==
    \/ ReqSettings.num_params > 100
    \/ ReqSettings.num_init_points > 1000
    \/ ReqSettings.batch_size > 100
    \/ HistoryLen(req.existing_data) > 10000
C19_LimitsBeforeComputation ==
    (pc = "done" /\ Authenticated /\ req.has_json /\ req.has_settings /\ ExceedsLimit)
        => /\ resp.status >= 400
           /\ calls.constructed = <<>>
           /\ calls.tells = <<>>
           /\ calls.asks = <<>>

\* C20: on the paths that build an optimizer from the caller's history
\* (continue and plot), a record with an objective whose objective or
\* whose declared parameters are missing, not numeric, NaN or infinite is
\* never dropped or repaired in silence: the request is answered with an
\* error and no training set is handed to an adapter.
Unusable(v) == float(v).exc # "" \/ ~isfinite(float(v).val)
MalformedRecord(row, names) ==
    /\ HasKey(row, "objective")
    /\ row["objective"] \notin {EmptyStr, None}
    /\ \/ Unusable(row["objective"])
       \/ \E d \in 1..Len(names) :
             ~HasKey(row, names[d]) \/ Unusable(row[names[d]])
C20_MalformedHistoryReported ==
    (/\ pc = "done" /\ req.endpoint \in {"continue", "plot"}
     /\ Authenticated /\ req.has_json /\ req.has_settings
     /\ \E i \in 1..Len(req.existing_data) :
           MalformedRecord(req.existing_data[i], ReqSettings.param_names))
        => /\ resp.status >= 400
           /\ calls.tells = <<>>

\* C21: a history record whose objective is absent, None or empty is
\* skipped whatever its parameter values are: a continue request with valid
\* settings whose history holds only such records is not refused for its
\* history and reaches the dispatcher.
PendingRecord(row) ==
    ~HasKey(row, "objective") \/ row["objective"] \in {EmptyStr, None}
C21_PendingRecordsNeverFail ==
    (/\ pc = "done" /\ req.endpoint = "continue"
     /\ Authenticated /\ req.has_json /\ req.has_settings
     /\ validate_optimizer_settings(req.settings) = ""
     /\ HistoryLen(req.existing_data) <= 10000
     /\ \A i \in 1..Len(req.existing_data) : PendingRecord(req.existing_data[i]))
        => /\ resp.status # 400
           /\ calls.dispatch = 1

\* a settings payload that validate_optimizer_settings has accepted, on an
\* endpoint that validates
SettingsAccepted ==
    /\ pc = "done" /\ req.endpoint \in {"init", "continue"}
    /\ Authenticated /\ req.has_json /\ req.has_settings
    /\ validate_optimizer_settings(req.settings) = ""

\* C22: every accepted settings payload has pairwise distinct, non-empty
\* parameter names that match the name pattern, so that its search space
\* has one dimension per declared parameter.
C22_AcceptedNamesDistinct ==
    SettingsAccepted
        => LET names == ReqSettings.param_names
           IN  /\ \A i \in 1..Len(names) :
                    names[i] # "" /\ NamePatternMatches(names[i])
               /\ \A i, j \in 1..Len(names) : names[i] = names[j] => i = j
               /\ Cardinality(DOMAIN get_dimensions(ReqSettings)) = ReqSettings.num_params

\* C23: every accepted settings payload has param_names, param_mins and
\* param_maxes of length num_params, and in every dimension bounds that are
\* finite numbers of magnitude at most 1e10 with min < max.
FiniteBound(v) ==
    /\ float(v).exc = ""
    /\ isfinite(float(v).val)
    /\ ~TooLarge(float(v).val)
C23_AcceptedBoundsFinite ==
    SettingsAccepted
        => LET s == ReqSettings
           IN  /\ Len(s.param_names) = s.num_params
               /\ Len(s.param_mins) = s.num_params
               /\ Len(s.param_maxes) = s.num_params
               /\ \A i \in 1..s.num_params :
                    /\ FiniteBound(s.param_mins[i])
                    /\ FiniteBound(s.param_maxes[i])
                    /\ FloatKey(float(s.param_mins[i]).val)
                         < FloatKey(float(s.param_maxes[i]).val)

\* the identity a request claims: that of the first source present (a
\* header carrying a value), in the order X-User-Email,
\* X-Goog-Authenticated-User-Email, Bearer token
GmailAddresses == {"a@gmail.com", "b@gmail.com"}
ClaimedIdentity(headers) ==
    IF headers.x_user_email # "" THEN headers.x_user_email
    ELSE IF headers.x_goog_email # ""
    THEN (IF headers.x_goog_email = "accounts.google.com:b@gmail.com"
          THEN "b@gmail.com" ELSE headers.x_goog_email)
    ELSE IF headers.bearer # ""
    THEN (IF jwt_decode(headers.bearer).email # ""
          THEN jwt_decode(headers.bearer).email
          ELSE jwt_decode(headers.bearer).sub)
    ELSE ""

\* C24: on every endpoint authentication comes first: an unauthenticated
\* request is answered 403 with the authentication message, whatever its
\* payload, and it constructs nothing, loads nothing and leaves the
\* rate-limit record of every caller as it was.
C24_AuthenticationComesFirst ==
    [][(pc = "idle" /\ pc' = "done" /\ ClaimedIdentity(req'.headers) \notin GmailAddresses)
          => /\ resp'.status = 403
             /\ resp'.message \in {"Access denied: Must use a Gmail account",
                                   "Invalid or malformed JWT token",
                                   "Authentication required"}
             /\ resp'.data = <<>>
             /\ calls' = NoCalls
             /\ optimizer' = NoOptimizer
             /\ rate_limit_storage' = rate_limit_storage
             /\ optimizer_builder_loaded' = optimizer_builder_loaded
             /\ plots_loaded' = plots_loaded]_vars
C24_Witness ==
    /\ pc = "done"
    /\ req.endpoint = "ping"
    /\ req.headers.x_user_email = "c@corp.com"
    /\ req.headers.bearer = "jwt:a@gmail.com"
    /\ resp.status = 403
    /\ rate_limit_storage["a@gmail.com"] = <<0>>
    /\ accepted.handled = 2

\* C25: authenticate_request decides on the identity of the first source
\* present (X-User-Email, then X-Goog-Authenticated-User-Email, then the
\* Bearer token) and never on a later one: it returns (True, email, None)
\* exactly when that identity is a @gmail.com address, and (False, None,
\* message) otherwise; the handlers answer accordingly.
C25_FirstPresentSourceDecides ==
    pc = "done"
        => LET id == ClaimedIdentity(req.headers)
               auth == authenticate_request(req.headers)
           IN  IF id \in GmailAddresses
               THEN /\ auth = [ok |-> TRUE, email |-> id, msg |-> ""]
                    /\ resp.status # 403
                    /\ req.endpoint = "test-connection" => resp.data = <<id>>
               ELSE /\ ~auth.ok /\ auth.email = "" /\ auth.msg # ""
                    /\ resp.status = 403
                    /\ resp.message = auth.msg
C25_Witness ==
    /\ pc = "done"
    /\ req.endpoint = "test-connection"
    /\ req.headers.x_user_email = ""
    /\ req.headers.x_goog_email = "accounts.google.com:b@gmail.com"
    /\ req.headers.bearer = "jwt:c@corp.com"
    /\ resp.status = 200
    /\ resp.data = <<"b@gmail.com">>

\* C26: format_points_response returns one record per proposed point, in
\* the same order; in each record every declared parameter name maps to the
\* coordinate of the point at that parameter's position, and the objective
\* field is the empty string.
C26_RecordsMatchPoints ==
    (pc = "done" /\ req.endpoint \in {"init", "continue"} /\ resp.status = 200)
        => LET points == calls.returned[1]
               names == ReqSettings.param_names
           IN  /\ Len(resp.data) = Len(points)
               /\ \A j \in 1..Len(points) :
                    /\ resp.data[j]["objective"] = EmptyStr
                    /\ \A i \in 1..Len(names) :
                         /\ HasKey(resp.data[j], names[i])
                         /\ resp.data[j][names[i]] = points[j][i]

\* C27: every init or continue request ends either in a success response
\* carrying the full requested number of points or in an error response
\* carrying no points; no request constructs, trains or asks twice.
Requested ==
    IF req.endpoint = "init" THEN ReqSettings.num_init_points
    ELSE ReqSettings.batch_size
ErrorWithoutPoints == resp.status >= 400 /\ resp.data = <<>>
NothingRetried ==
    /\ calls.dispatch <= 1
    /\ Len(calls.constructed) <= 1
    /\ Len(calls.tells) <= 1
    /\ Len(calls.asks) <= 1
C27_AllOrNothing ==
    (pc = "done" /\ req.endpoint \in {"init", "continue"})
        => /\ \/ resp.status = 200 /\ Len(resp.data) = Requested
              \/ ErrorWithoutPoints
           /\ NothingRetried

\* C28: whenever a settings payload has been accepted, the estimator name
\* that build_optimizer hands to the surrogate-model engine is one of the
\* whitelisted names GP, RF, ET, GBRT, also when the identifier holds more
\* than one hyphen.
C28_EngineGetsWhitelistedEstimator ==
    SettingsAccepted
        => \A c \in 1..Len(calls.constructed) :
              /\ Len(calls.constructed[c].algo) = 1
              /\ calls.constructed[c].algo[1] \in valid_estimators

\* C29: the three backends' parse_training_data return the same (X, y)
\* for every history and list of parameter names: the result of any one of
\* them is the result of each of the others.
C29_ParsersAgree ==
    pout.backend # "none"
        => LET got == [X |-> pout.X, y |-> pout.y]
           IN  /\ got = skopt_parse_training_data(pin.data, pin.names)
               /\ got = nevergrad_parse_training_data(pin.data, pin.names)
               /\ got = snobfit_parse_training_data(pin.data, pin.names)

\* C30: a rejected check_rate_limit call records nothing.  No caller's list
\* ever holds more than 10 entries; it holds only timestamps of accepted
\* pings (it is the tail of the caller's accepted pings); a ping is rejected
\* only while 10 accepted pings of the caller lie in the last 60 seconds,
\* whatever number of rejected ones came in between; and a ping changes no
\* list but its caller's, a rejected one adding nothing to that either.
IsTailOf(list, log) ==
    \E k \in 0..Len(log) : list = SubSeq(log, k + 1, Len(log))
RejectedRecordsNothing ==
    /\ \A e \in Callers :
         /\ Len(rate_limit_storage[e]) <= RATE_LIMIT_MAX_REQUESTS
         /\ IsTailOf(rate_limit_storage[e], accepted.log[e])
    /\ (req.endpoint = "ping" /\ resp.status \in {200, 429})
         => LET e == ClaimedIdentity(req.headers)
                before == Cardinality(AcceptedInWindow(e, accepted.at))
                            - (IF resp.status = 200 THEN 1 ELSE 0)
            IN  resp.status = 200 <=> before < RATE_LIMIT_MAX_REQUESTS
OnlyTheCallersList ==
    accepted'.handled = accepted.handled + 1
        => \A e \in Callers :
              IF e = ClaimedIdentity(req'.headers) /\ resp'.status = 429
              THEN rate_limit_storage'[e]
                     = CleanOldEntries(rate_limit_storage[e], clock)
              ELSE IF e = ClaimedIdentity(req'.headers) /\ resp'.status = 200
              THEN rate_limit_storage'[e]
                     = Append(CleanOldEntries(rate_limit_storage[e], clock), clock)
              ELSE rate_limit_storage'[e] = rate_limit_storage[e]
C30_RejectedCallRecordsNothing ==
    []RejectedRecordsNothing /\ [][OnlyTheCallersList]_vars
C30_Witness ==
    /\ req.endpoint = "ping"
    /\ req.headers = GoodHeaders
    /\ resp.status = 200
    /\ clock = 2 * TickStep
    /\ accepted.handled = RATE_LIMIT_MAX_REQUESTS + 2
    /\ Len(accepted.log["a@gmail.com"]) = RATE_LIMIT_MAX_REQUESTS + 1
    /\ rate_limit_storage["a@gmail.com"] = <<clock>>
====
